---- MODULE Spec2Model ----
(***************************************************************************)
(* Model of the hnat parameter-table loader:                               *)
(*   - xl/workbook.py: Workbook (a minimal reader of .xlsx packages)       *)
(*   - processing/habitat_network_algorithm.py: CellRef, ParameterSet,     *)
(*     HabitatNetworkAlgorithm._loadBatchParameters and columnValues       *)
(* Indices are 0-based as in the Python source; TLA+ sequences are 1-based,*)
(* so the Python expression s[i] is written s[i + 1].                      *)
(***************************************************************************)
EXTENDS Integers, Sequences, FiniteSets, TLC

VARIABLES
    pkg,                  \* the .xlsx package on disk (zip members and their XML)
    pc,                   \* position of the caller / of _loadBatchParameters
    err,                  \* the exception that ended the run, or NoErr
    handles,              \* handles opened and not closed (archive, members)
    rels,                 \* Workbook._rels
    sheetDefs,            \* Workbook._sheetDefs
    sharedStrings,        \* Workbook._sharedStrings
    sheet_index,          \* the sheet a caller asks for
    sheetNameRet,         \* value returned by the last sheetName call
    rows,                 \* grid returned by loadSheetData
    headerRowIndex,       \* locals of _loadBatchParameters
    headerColumnIndex,
    header_to_row_map,
    biotopeCodes,
    current_column_index,
    parameters,
    columns,
    parameterSets,
    result,               \* the BatchParameters returned, or NoResult
    cvArgs,               \* arguments of a direct columnValues call
    cvRet,                \* what that call returned or raised
    psArgs,               \* a direct ParameterSet.parameter / column call
    psRet                 \* what that call returned or raised

wbVars == <<pkg, handles, rels, sheetDefs, sharedStrings, sheet_index, sheetNameRet>>
exVars == <<headerRowIndex, headerColumnIndex, header_to_row_map, biotopeCodes, current_column_index, parameters, columns, parameterSets, result>>
cvVars == <<cvArgs, cvRet>>
psVars == <<psArgs, psRet>>
vars == <<pc, err, rows, wbVars, exVars, cvVars, psVars>>

---------------------------------------------------------------------------
(* Bounds of the model *)

\* most rows below the header row in a generated parameter table
MaxDataRows == 2
\* largest column index at which a generated table puts its row headers
MaxHeaderCol == 2
\* most rows of a grid handed directly to columnValues
MaxCvRows == 3
\* longest row of a grid handed directly to columnValues
MaxCvLen == 2

---------------------------------------------------------------------------
(* Python values *)

\* Python None where an index is expected
NONE == -1

\* cell values: None, str, int, float; s is the text of the value
None == [k |-> "none", s |-> ""]
StrV(x) == [k |-> "str", s |-> x]
IntV(x) == [k |-> "int", s |-> x]
FloatV(x) == [k |-> "float", s |-> x]

\* texts of the numbers that equal zero
ZeroTexts == {"0", "0.0"}

\* bool(v) of a cell value
PyTruthy(v) == \/ v.k = "str" /\ v.s # ""
               \/ v.k \in {"int", "float"} /\ v.s \notin ZeroTexts

\* 0 == v for a cell value
PyEqZero(v) == v.k \in {"int", "float"} /\ v.s \in ZeroTexts

\* bool(i) of an index that may be None
PyTruthyIndex(i) == i # NONE /\ i # 0

\* what a call gives back: a value, or an exception
Return(v) == [raised |-> FALSE, value |-> v, type |-> "", msg |-> ""]
Raise(t, m) == [raised |-> TRUE, value |-> <<>>, type |-> t, msg |-> m]

NoErr == [type |-> "", msg |-> ""]
Exc(r) == [type |-> r.type, msg |-> r.msg]

\* a dict is the sequence of its items in insertion order
DictHas(d, key) == \E i \in 1..Len(d) : d[i].key = key
DictGet(d, key) == d[CHOOSE i \in 1..Len(d) : d[i].key = key].val
DictSet(d, key, v) == IF DictHas(d, key) THEN [i \in 1..Len(d) |-> IF d[i].key = key THEN [key |-> key, val |-> v] ELSE d[i]] ELSE Append(d, [key |-> key, val |-> v])
DictKeys(d) == {d[i].key : i \in 1..Len(d)}

\* chr(ord('A') + x) for the columns of the model
Letters == <<"A", "B", "C", "D", "E", "F", "G", "H", "I", "J", "K", "L", "M", "N", "O", "P", "Q", "R", "S", "T", "U", "V", "W", "X", "Y", "Z">>

CellRef(x, y) == Letters[x + 1] \o ToString(y + 1)

---------------------------------------------------------------------------
(* HabitatNetworkAlgorithm.columnValues *)

RECURSIVE columnValuesLoop(_, _, _, _, _, _)
columnValuesLoop(rws, column_index, first_row, row_count, i, values) ==
    IF i >= row_count THEN Return(values)
    ELSE LET row == rws[first_row + i + 1] IN
         IF column_index >= Len(row) \/ (~PyTruthy(row[column_index + 1]) /\ ~PyEqZero(row[column_index + 1]))
         THEN Raise("Exception", "Value expected in cell " \o CellRef(column_index, first_row + i))
         ELSE columnValuesLoop(rws, column_index, first_row, row_count, i + 1, Append(values, row[column_index + 1]))

RECURSIVE columnValuesNoZeroLoop(_, _, _, _, _, _)
columnValuesNoZeroLoop(rws, column_index, first_row, row_count, i, values) ==
    IF i >= row_count THEN Return(values)
    ELSE LET row == rws[first_row + i + 1] IN
         IF column_index >= Len(row) \/ ~PyTruthy(row[column_index + 1])
         THEN Raise("Exception", "Value expected in cell " \o CellRef(column_index, first_row + i))
         ELSE columnValuesNoZeroLoop(rws, column_index, first_row, row_count, i + 1, Append(values, row[column_index + 1]))

\* columnValues with the test for emptiness reduced to "not row[column_index]"
columnValuesNoZero(rws, column_index, first_row, row_count) == columnValuesNoZeroLoop(rws, column_index, first_row, row_count, 0, <<>>)

columnValues(rws, column_index, first_row, row_count) == columnValuesLoop(rws, column_index, first_row, row_count, 0, <<>>)

---------------------------------------------------------------------------
(* A direct call of columnValues on a grid of any cell values *)

NoResult == [returned |-> FALSE, biotopeCodes |-> <<>>, parameterSets |-> <<>>]
NoPkg == [members |-> {}]
NoCv == [column_index |-> 0, first_row |-> 0, row_count |-> 0]
NoPs == [op |-> "", ps |-> [parameters |-> <<>>, columns |-> <<>>], names |-> <<>>]

\* the locals and fields a run starts with
Idle == /\ err = NoErr
        /\ handles = {}
        /\ rels = <<>>
        /\ sheetDefs = <<>>
        /\ sharedStrings = <<>>
        /\ sheet_index = 0
        /\ sheetNameRet = ""
        /\ headerRowIndex = NONE
        /\ headerColumnIndex = NONE
        /\ header_to_row_map = <<>>
        /\ biotopeCodes = <<>>
        /\ current_column_index = 0
        /\ parameters = <<>>
        /\ columns = <<>>
        /\ parameterSets = <<>>
        /\ result = NoResult
        /\ cvRet = Return(<<>>)
        /\ psRet = Return(<<>>)

\* cell values a grid given to columnValues may hold
CvCells == {None, StrV(""), IntV("0"), FloatV("0.0"), IntV("7")}
\* a row of the given length: a truthy filler, then the cell v as its last cell
CvRow(len, v) == [i \in 1..len |-> IF i = len THEN v ELSE StrV("x")]
CvRows == {<<>>} \cup {CvRow(len, v) : len \in 1..MaxCvLen, v \in CvCells}
CvGrids == UNION {[1..n -> CvRows] : n \in 1..MaxCvRows}

InitCv == /\ Idle
          /\ pkg = NoPkg
          /\ pc = "cv"
          /\ psArgs = NoPs
          /\ rows \in CvGrids
          /\ \E c \in 0..(MaxCvLen - 1), f \in 0..MaxCvRows :
                /\ f <= Len(rows)
                /\ cvArgs = [column_index |-> c, first_row |-> f, row_count |-> Len(rows) - f]

CallColumnValues ==
    /\ pc = "cv"
    /\ cvRet' = columnValues(rows, cvArgs.column_index, cvArgs.first_row, cvArgs.row_count)
    /\ pc' = "cv_done"
    /\ UNCHANGED <<err, rows, wbVars, exVars, cvArgs, psVars>>

NextCv == CallColumnValues

SpecCv == InitCv /\ [][NextCv]_vars

---------------------------------------------------------------------------
(* xl/workbook.py: the package and the Workbook reader *)

RelsPath == "xl/_rels/workbook.xml.rels"
WorkbookPath == "xl/workbook.xml"
SharedStringsPath == "xl/sharedStrings.xml"

\* largest whole number whose decimal text the model's cells use
MaxIntText == 99
\* texts of the model that float() reads and int() does not
FloatTexts == {"0.05", "0.0", "1.5"}

\* texts of the model that int() reads, and what it reads them as
IntTexts == {ToString(n) : n \in 0..MaxIntText}
IntOfText == [s \in IntTexts |-> CHOOSE n \in 0..MaxIntText : ToString(n) = s]
IsIntText(s) == s \in IntTexts
IntOf(s) == IntOfText[s]

\* ValueFromString: int first, then float, else the text itself; the text of
\* an empty XML element is None, which neither conversion reads
ValueFromString(s) ==
    IF IsIntText(s) THEN IntV(s)
    ELSE IF s \in FloatTexts THEN FloatV(s)
    ELSE IF s = "" THEN None
    ELSE StrV(s)

\* Python's list indexing: negative indices count from the end
PyIndexOk(seq, i) == -Len(seq) <= i /\ i < Len(seq)
PyIndex(seq, i) == IF i >= 0 THEN seq[i + 1] ELSE seq[Len(seq) + i + 1]

\* Workbook._loadXml: open the member, parse it
loadXml(p, path) ==
    IF path \notin p.members THEN Raise("KeyError", path)
    ELSE IF path \in p.malformed THEN Raise("ParseError", path)
    ELSE Return(path)

\* the handle _loadXml leaves open: the member's, once the archive had it
loadXmlHandles(p, path) == IF path \in p.members THEN {path} ELSE {}

\* Workbook._loadRels: Id -> Target of every Relationship child
RECURSIVE relsLoop(_, _, _)
relsLoop(children, i, acc) ==
    IF i > Len(children) THEN acc
    ELSE relsLoop(children, i + 1, DictSet(acc, children[i].Id, children[i].Target))

loadRels(p) ==
    LET doc == loadXml(p, RelsPath) IN
    IF doc.raised THEN doc ELSE Return(relsLoop(p.rels, 1, <<>>))

\* Workbook._loadSheetDefs: a SheetDef per sheet element, in document order
loadSheetDefs(p) ==
    LET doc == loadXml(p, WorkbookPath) IN
    IF doc.raised THEN doc ELSE Return(p.sheets)

\* t.text of a shared string: None when the element is empty
sharedText(text) == IF text = "" THEN None ELSE StrV(text)

\* Workbook._loadSharedStrings: the text of every si that has a t child
RECURSIVE sharedStringsLoop(_, _, _)
sharedStringsLoop(si, i, shared_strings) ==
    IF i > Len(si) THEN shared_strings
    ELSE sharedStringsLoop(si, i + 1, IF si[i].t THEN Append(shared_strings, sharedText(si[i].text)) ELSE shared_strings)

loadSharedStrings(p) ==
    LET doc == loadXml(p, SharedStringsPath) IN
    IF doc.raised THEN doc ELSE Return(sharedStringsLoop(p.si, 1, <<>>))

\* Workbook.__init__: the archive, then _rels, _sheetDefs, _sharedStrings
WorkbookInit ==
    /\ pc = "start"
    /\ IF ~pkg.isZip
       THEN /\ err' = [type |-> "BadZipFile", msg |-> "File is not a zip file"]
            /\ pc' = "failed"
            /\ UNCHANGED <<handles, rels, sheetDefs, sharedStrings>>
       ELSE LET r1 == loadRels(pkg)
                r2 == loadSheetDefs(pkg)
                r3 == loadSharedStrings(pkg)
                h1 == {"archive"} \cup loadXmlHandles(pkg, RelsPath)
                h2 == h1 \cup loadXmlHandles(pkg, WorkbookPath)
                h3 == h2 \cup loadXmlHandles(pkg, SharedStringsPath)
            IN  IF r1.raised
                THEN /\ err' = Exc(r1)
                     /\ pc' = "failed"
                     /\ handles' = h1
                     /\ UNCHANGED <<rels, sheetDefs, sharedStrings>>
                ELSE IF r2.raised
                THEN /\ err' = Exc(r2)
                     /\ pc' = "failed"
                     /\ handles' = h2
                     /\ rels' = r1.value
                     /\ UNCHANGED <<sheetDefs, sharedStrings>>
                ELSE IF r3.raised
                THEN /\ err' = Exc(r3)
                     /\ pc' = "failed"
                     /\ handles' = h3
                     /\ rels' = r1.value
                     /\ sheetDefs' = r2.value
                     /\ UNCHANGED sharedStrings
                ELSE /\ pc' = "opened"
                     /\ handles' = h3
                     /\ rels' = r1.value
                     /\ sheetDefs' = r2.value
                     /\ sharedStrings' = r3.value
                     /\ UNCHANGED err
    /\ UNCHANGED <<pkg, sheet_index, sheetNameRet, rows, exVars, cvVars, psVars>>

\* Workbook.sheetCount
sheetCount == Len(sheetDefs)

\* Workbook.sheetName
sheetName(index) ==
    IF PyIndexOk(sheetDefs, index) THEN Return(PyIndex(sheetDefs, index).name)
    ELSE Raise("IndexError", "list index out of range")

\* Workbook._sheetPath
sheetPath(index) ==
    IF ~PyIndexOk(sheetDefs, index) THEN Raise("IndexError", "list index out of range")
    ELSE LET rid == PyIndex(sheetDefs, index).rid IN
         IF ~DictHas(rels, rid) THEN Raise("KeyError", rid)
         ELSE Return("xl/" \o DictGet(rels, rid))

\* ord(ref[0]) - ord('A') of a cell reference
ColumnOf(ref) == (CHOOSE n \in 1..Len(Letters) : Letters[n] = ref.letter) - 1

\* loadSheetData, lines 63-72: the cells of one row element
RECURSIVE cellsLoop(_, _, _)
cellsLoop(cells, i, row) ==
    IF i > Len(cells) THEN Return(row)
    ELSE LET c_node == cells[i]
             col == ColumnOf(c_node.r)
         IN  IF ~c_node.v THEN cellsLoop(cells, i + 1, row)
             ELSE IF c_node.t = "s"
             THEN IF ~IsIntText(c_node.text) THEN Raise("ValueError", "invalid literal for int()")
                  ELSE IF ~PyIndexOk(sharedStrings, IntOf(c_node.text)) THEN Raise("IndexError", "list index out of range")
                  ELSE IF col >= Len(row) THEN Raise("IndexError", "list assignment index out of range")
                  ELSE cellsLoop(cells, i + 1, [row EXCEPT ![col + 1] = PyIndex(sharedStrings, IntOf(c_node.text))])
             ELSE IF col >= Len(row) THEN Raise("IndexError", "list assignment index out of range")
                  ELSE cellsLoop(cells, i + 1, [row EXCEPT ![col + 1] = ValueFromString(c_node.text)])

\* loadSheetData, lines 59-73: raw_rows, a (row number, row) pair per row element
RECURSIVE rawRowsLoop(_, _, _)
rawRowsLoop(row_nodes, i, raw_rows) ==
    IF i > Len(row_nodes) THEN Return(raw_rows)
    ELSE LET row_node == row_nodes[i]
             length == row_node.spans[2]
             row == cellsLoop(row_node.c, 1, [n \in 1..length |-> None])
         IN  IF row.raised THEN row
             ELSE rawRowsLoop(row_nodes, i + 1, Append(raw_rows, <<row_node.r, row.value>>))

\* max of a non-empty set of numbers
Max(S) == CHOOSE m \in S : \A n \in S : n <= m

\* loadSheetData, lines 75-77: every row put at its number, the rest left []
RECURSIVE placeRowsLoop(_, _, _)
placeRowsLoop(raw_rows, i, rws) ==
    IF i > Len(raw_rows) THEN rws
    ELSE placeRowsLoop(raw_rows, i + 1, [rws EXCEPT ![raw_rows[i][1]] = raw_rows[i][2]])

\* the same, with the rows put in the order in which they are declared
placeRowsInOrder(raw_rows, i, rws) == [n \in 1..Len(rws) |-> IF n <= Len(raw_rows) THEN raw_rows[n][2] ELSE <<>>]

placeRows(raw_rows, i, rws) == placeRowsLoop(raw_rows, i, rws)

\* loadSheetData, with a sheet of no rows read as the grid of no rows
loadSheetDataEmptyGrid(index) ==
    LET path == sheetPath(index) IN
    IF path.raised THEN path
    ELSE LET doc == loadXml(pkg, path.value) IN
         IF doc.raised THEN doc
         ELSE LET raw_rows == rawRowsLoop(pkg.worksheets[path.value], 1, <<>>) IN
              IF raw_rows.raised THEN raw_rows
              ELSE IF raw_rows.value = <<>> THEN Return(<<>>)
              ELSE LET row_count == Max({raw_rows.value[n][1] : n \in 1..Len(raw_rows.value)})
                   IN  Return(placeRows(raw_rows.value, 1, [n \in 1..row_count |-> <<>>]))

\* Workbook.loadSheetData
loadSheetData(index) ==
    LET path == sheetPath(index) IN
    IF path.raised THEN path
    ELSE LET doc == loadXml(pkg, path.value) IN
         IF doc.raised THEN doc
         ELSE LET raw_rows == rawRowsLoop(pkg.worksheets[path.value], 1, <<>>) IN
              IF raw_rows.raised THEN raw_rows
              ELSE IF raw_rows.value = <<>> THEN Raise("ValueError", "max() arg is an empty sequence")
              ELSE LET row_count == Max({raw_rows.value[n][1] : n \in 1..Len(raw_rows.value)})
                   IN  Return(placeRows(raw_rows.value, 1, [n \in 1..row_count |-> <<>>]))

\* the handles loadSheetData leaves open
loadSheetDataHandles(index) ==
    LET path == sheetPath(index) IN
    IF path.raised THEN {} ELSE loadXmlHandles(pkg, path.value)

\* sheet indices a caller may pass
MaxSheets == 2
SheetIndexes == (-(MaxSheets + 1)) .. MaxSheets

\* a caller asks for a sheet's name (_loadBatchParameters, line 297, asks for sheet 0)
SheetName ==
    /\ pc = "opened"
    /\ \E index \in SheetIndexes :
          LET r == sheetName(index) IN
          /\ sheet_index' = index
          /\ IF r.raised
             THEN /\ err' = Exc(r)
                  /\ pc' = "failed"
                  /\ UNCHANGED sheetNameRet
             ELSE /\ sheetNameRet' = r.value
                  /\ pc' = "named"
                  /\ UNCHANGED err
    /\ UNCHANGED <<pkg, handles, rels, sheetDefs, sharedStrings, rows, exVars, cvVars, psVars>>

\* ... and then for its data (line 298)
LoadSheetData ==
    /\ pc = "named"
    /\ LET r == loadSheetData(sheet_index) IN
       /\ handles' = handles \cup loadSheetDataHandles(sheet_index)
       /\ IF r.raised
          THEN /\ err' = Exc(r)
               /\ pc' = "failed"
               /\ UNCHANGED rows
          ELSE /\ rows' = r.value
               /\ pc' = "loaded"
               /\ UNCHANGED err
    /\ UNCHANGED <<pkg, sheet_index, rels, sheetDefs, sharedStrings, sheetNameRet, exVars, cvVars, psVars>>

---------------------------------------------------------------------------
(* processing/habitat_network_algorithm.py: BatchParameters, ParameterSet *)

BIOTOPE_CODE_HDR == "BiotopeCode"

\* a name, or a list of names, is the list of its names
NAME_PARAM == <<"Network name">>
DISPERSAL_PARAM == <<"Average dispersal distance (metres)">>
NETWORK_THRESHOLD_PARAM == <<"Network threshold", "Minimum dispersal probability">>
PARAMS == <<NAME_PARAM, DISPERSAL_PARAM, NETWORK_THRESHOLD_PARAM>>
QUALITY_COLUMN == <<"Quality">>
SOURCE_COLUMN == <<"Source", "Reproduction">>
FRICTION_COLUMN == <<"Friction">>
COLUMNS == <<QUALITY_COLUMN, SOURCE_COLUMN, FRICTION_COLUMN>>

\* sep.join(names)
RECURSIVE Join(_, _)
Join(names, sep) ==
    IF names = <<>> THEN ""
    ELSE IF Len(names) = 1 THEN names[1]
    ELSE names[1] \o sep \o Join(Tail(names), sep)

\* first name of the list that is a key of the dict, or NONE: the loops
\* "for name in names: v = d.get(name); if v is not None: break"
\* (no dict of the program stores None as a value)
RECURSIVE FirstPresent(_, _, _)
FirstPresent(d, names, i) ==
    IF i > Len(names) THEN NONE
    ELSE IF DictHas(d, StrV(names[i])) THEN i
    ELSE FirstPresent(d, names, i + 1)

\* the same lookup, trying the first name only
FirstOnly(d, names, i) == IF DictHas(d, StrV(names[1])) THEN 1 ELSE NONE

Lookup(d, names, i) == FirstPresent(d, names, i)

\* s[0] of the labels of the program
FirstChar(s) ==
    CASE s \in {"Network name", "Network threshold"} -> "N"
      [] s = "Average dispersal distance (metres)" -> "A"
      [] s = "Minimum dispersal probability" -> "M"
      [] s = "Quality" -> "Q"
      [] s = "Source" -> "S"
      [] s = "Reproduction" -> "R"
      [] s = "Friction" -> "F"

\* ParameterSet.parameter
parameter(ps, names) ==
    LET i == Lookup(ps.parameters, names, 1) IN
    IF i # NONE THEN Return(DictGet(ps.parameters, StrV(names[i])))
    ELSE Raise("Exception", "Missing parameter '" \o FirstChar(names[Len(names)]) \o "'.")

\* ParameterSet.column
column(ps, names) ==
    LET i == Lookup(ps.columns, names, 1) IN
    IF i # NONE THEN Return(DictGet(ps.columns, StrV(names[i])))
    ELSE Raise("Exception", "Missing parameter set column '" \o FirstChar(names[Len(names)]) \o "'.")

---------------------------------------------------------------------------
(* A direct call of ParameterSet.parameter or ParameterSet.column *)

\* the labels a dict of a ParameterSet may have as keys
ParameterLabels == <<"Network name", "Average dispersal distance (metres)", "Network threshold", "Minimum dispersal probability">>
ColumnLabels == <<"Quality", "Source", "Reproduction", "Friction">>

\* place of a label in such a list
LabelNumber(labels, x) == CHOOSE n \in 1..Len(labels) : labels[n] = x

\* a dict with the given labels as keys; the value tells the key: a number
\* for a parameter, a list of one number for a column
PsDict(labels, keys, isColumn) ==
    LET ks == SelectSeq(labels, LAMBDA x : x \in keys) IN
    [n \in 1..Len(ks) |-> [key |-> StrV(ks[n]),
                          val |-> IF isColumn THEN <<IntV(ToString(LabelNumber(labels, ks[n])))>> ELSE IntV(ToString(LabelNumber(labels, ks[n])))]]

SetOf(seq) == {seq[n] : n \in 1..Len(seq)}
ParameterSets == {[parameters |-> PsDict(ParameterLabels, pk, FALSE), columns |-> PsDict(ColumnLabels, ck, TRUE)] :
                     pk \in SUBSET SetOf(ParameterLabels), ck \in SUBSET SetOf(ColumnLabels)}

\* a name, or a list of names, a caller may pass: the concepts of the
\* program, and the synonym lists in the other order
Reversed(names) == [n \in 1..Len(names) |-> names[Len(names) + 1 - n]]
ParameterNames == SetOf(PARAMS) \cup {Reversed(NETWORK_THRESHOLD_PARAM)}
ColumnNames == SetOf(COLUMNS) \cup {Reversed(SOURCE_COLUMN)}

InitPs == /\ Idle
          /\ pkg = NoPkg
          /\ pc = "ps"
          /\ rows = <<>>
          /\ cvArgs = NoCv
          /\ \E ps \in ParameterSets :
                \/ \E names \in ParameterNames : psArgs = [op |-> "parameter", ps |-> ps, names |-> names]
                \/ \E names \in ColumnNames : psArgs = [op |-> "column", ps |-> ps, names |-> names]

CallParameter ==
    /\ pc = "ps"
    /\ psArgs.op = "parameter"
    /\ psRet' = parameter(psArgs.ps, psArgs.names)
    /\ pc' = "ps_done"
    /\ UNCHANGED <<err, rows, wbVars, exVars, cvVars, psArgs>>

CallColumn ==
    /\ pc = "ps"
    /\ psArgs.op = "column"
    /\ psRet' = column(psArgs.ps, psArgs.names)
    /\ pc' = "ps_done"
    /\ UNCHANGED <<err, rows, wbVars, exVars, cvVars, psArgs>>

NextPs == \/ CallParameter
          \/ CallColumn

SpecPs == InitPs /\ [][NextPs]_vars

---------------------------------------------------------------------------
(* HabitatNetworkAlgorithm._loadBatchParameters, from line 300 on *)

\* x in row
InRow(x, row) == \E j \in 1..Len(row) : row[j] = x
\* row.index(x)
IndexInRow(x, row) == (CHOOSE j \in 1..Len(row) : row[j] = x /\ \A q \in 1..(j - 1) : row[q] # x) - 1

\* lines 301-305: the first row that holds the biotope code header
RECURSIVE headerRowLoop(_, _)
headerRowLoop(rws, i) ==
    IF i >= Len(rws) THEN NONE
    ELSE IF InRow(StrV(BIOTOPE_CODE_HDR), rws[i + 1]) THEN i
    ELSE headerRowLoop(rws, i + 1)

FindHeaderRow ==
    /\ pc = "loaded"
    /\ sheet_index = 0
    /\ headerRowIndex' = headerRowLoop(rows, 0)
    /\ IF ~PyTruthyIndex(headerRowIndex')
       THEN /\ err' = [type |-> "Exception", msg |-> "Column header \"" \o BIOTOPE_CODE_HDR \o "\" not found."]
            /\ pc' = "failed"
       ELSE /\ pc' = "header_row"
            /\ UNCHANGED err
    /\ UNCHANGED <<rows, wbVars, headerColumnIndex, header_to_row_map, biotopeCodes, current_column_index, parameters, columns, parameterSets, result, cvVars, psVars>>

\* lines 314-317: the first column of the row that holds the name header
firstNameColumn(row) == IF InRow(StrV(PARAMS[1][1]), row) THEN IndexInRow(StrV(PARAMS[1][1]), row) ELSE NONE

\* lines 311-319: rows above the header row, until headerColumnIndex is truthy
RECURSIVE headerColumnLoop(_, _, _, _)
headerColumnLoop(rws, hri, row_index, hci) ==
    IF row_index >= hri THEN hci
    ELSE LET found == firstNameColumn(rws[row_index + 1])
             now == IF found # NONE THEN found ELSE hci
         IN  IF PyTruthyIndex(now) THEN now
             ELSE headerColumnLoop(rws, hri, row_index + 1, now)

FindHeaderColumn ==
    /\ pc = "header_row"
    /\ headerColumnIndex' = headerColumnLoop(rows, headerRowIndex, 0, NONE)
    /\ IF ~PyTruthyIndex(headerColumnIndex')
       THEN /\ err' = [type |-> "Exception", msg |-> "Row header \"" \o PARAMS[1][1] \o "\" not found."]
            /\ pc' = "failed"
       ELSE /\ pc' = "header_column"
            /\ UNCHANGED err
    /\ UNCHANGED <<rows, wbVars, headerRowIndex, header_to_row_map, biotopeCodes, current_column_index, parameters, columns, parameterSets, result, cvVars, psVars>>

\* lines 322-328: label -> row index of the rows above the header row
RECURSIVE headerToRowMapLoop(_, _, _, _, _)
headerToRowMapLoop(rws, hri, hci, row_index, map) ==
    IF row_index >= hri THEN Return(map)
    ELSE LET row == rws[row_index + 1] IN
         IF Len(row) >= hci
         THEN IF hci >= Len(row) THEN Raise("IndexError", "list index out of range")
              ELSE LET header_name == row[hci + 1] IN
                   headerToRowMapLoop(rws, hri, hci, row_index + 1, IF PyTruthy(header_name) THEN DictSet(map, header_name, row_index) ELSE map)
         ELSE headerToRowMapLoop(rws, hri, hci, row_index + 1, map)

BuildHeaderToRowMap ==
    /\ pc = "header_column"
    /\ LET r == headerToRowMapLoop(rows, headerRowIndex, headerColumnIndex, 0, <<>>) IN
       IF r.raised
       THEN /\ err' = Exc(r)
            /\ pc' = "failed"
            /\ UNCHANGED header_to_row_map
       ELSE /\ header_to_row_map' = r.value
            /\ pc' = "row_map"
            /\ UNCHANGED err
    /\ UNCHANGED <<rows, wbVars, headerRowIndex, headerColumnIndex, biotopeCodes, current_column_index, parameters, columns, parameterSets, result, cvVars, psVars>>

\* the header row and the code column
headerRow == rows[headerRowIndex + 1]
codeColumn == IndexInRow(StrV(BIOTOPE_CODE_HDR), headerRow)

\* line 331, with the rows of the span counted one short
readBiotopeCodesShort == columnValues(rows, codeColumn, headerRowIndex + 1, Len(rows) - headerRowIndex - 2)

\* line 331
readBiotopeCodes == columnValues(rows, codeColumn, headerRowIndex + 1, Len(rows) - headerRowIndex - 1)

ReadBiotopeCodes ==
    /\ pc = "row_map"
    /\ LET r == readBiotopeCodes IN
       IF r.raised
       THEN /\ err' = Exc(r)
            /\ pc' = "failed"
            /\ UNCHANGED biotopeCodes
       ELSE /\ biotopeCodes' = r.value
            /\ pc' = "codes"
            /\ UNCHANGED err
    /\ UNCHANGED <<rows, wbVars, headerRowIndex, headerColumnIndex, header_to_row_map, current_column_index, parameters, columns, parameterSets, result, cvVars, psVars>>

\* lines 341-346: the message for a concept none of whose labels is found
rowHeaderMessage(row_headers) ==
    IF Len(row_headers) = 1 THEN "Row header \"" \o row_headers[1] \o "\" not found."
    ELSE "None of the following row headers were found: \"" \o Join(row_headers, "\", \"") \o "\""

\* lines 334-346: the first concept of PARAMS without a row, or NONE
RECURSIVE missingRowHeader(_, _)
missingRowHeader(map, i) ==
    IF i > Len(PARAMS) THEN NONE
    ELSE IF Lookup(map, PARAMS[i], 1) = NONE THEN i
    ELSE missingRowHeader(map, i + 1)

\* lines 333-351
CheckRowHeaders ==
    /\ pc = "codes"
    /\ LET i == missingRowHeader(header_to_row_map, 1) IN
       IF i # NONE
       THEN /\ err' = [type |-> "Exception", msg |-> rowHeaderMessage(PARAMS[i])]
            /\ pc' = "failed"
            /\ UNCHANGED current_column_index
       ELSE /\ current_column_index' = headerColumnIndex + 1
            /\ pc' = "loop"
            /\ UNCHANGED err
    /\ UNCHANGED <<rows, wbVars, headerRowIndex, headerColumnIndex, header_to_row_map, biotopeCodes, parameters, columns, parameterSets, result, cvVars, psVars>>

\* line 351 and line 360: the row of the network names
name_row == rows[DictGet(header_to_row_map, StrV(NAME_PARAM[1])) + 1]

\* line 352: the condition of the loop over the parameter sets
moreParameterSets ==
    /\ current_column_index < Len(name_row)
    /\ current_column_index < Len(headerRow)
    /\ PyTruthy(headerRow[current_column_index + 1])

\* lines 354-359: a value per item of header_to_row_map
RECURSIVE parametersLoop(_, _, _, _, _)
parametersLoop(rws, map, column_index, i, params) ==
    IF i > Len(map) THEN Return(params)
    ELSE LET param == map[i].key
             row_index == map[i].val
             row == rws[row_index + 1]
             value == IF column_index < Len(row) THEN row[column_index + 1] ELSE None
         IN  IF ~PyTruthy(value)
             THEN Raise("Exception", "Expected " \o param.s \o " value in cell " \o CellRef(column_index, row_index))
             ELSE parametersLoop(rws, map, column_index, i + 1, DictSet(params, param, value))

\* lines 352-361
ReadParameters ==
    /\ pc = "loop"
    /\ moreParameterSets
    /\ LET r == parametersLoop(rows, header_to_row_map, current_column_index, 1, <<>>) IN
       IF r.raised
       THEN /\ err' = Exc(r)
            /\ pc' = "failed"
            /\ UNCHANGED <<parameters, columns>>
       ELSE /\ parameters' = r.value
            /\ columns' = <<>>
            /\ pc' = "capture"
            /\ UNCHANGED err
    /\ UNCHANGED <<rows, wbVars, headerRowIndex, headerColumnIndex, header_to_row_map, biotopeCodes, current_column_index, parameterSets, result, cvVars, psVars>>

\* line 363: the values of the current column
captureColumn == columnValues(rows, current_column_index, headerRowIndex + 1, Len(biotopeCodes))

\* lines 362-366: one turn of the loop over the columns of a parameter set
CaptureColumn ==
    /\ pc = "capture"
    /\ IF current_column_index < Len(headerRow) /\ PyTruthy(headerRow[current_column_index + 1])
       THEN LET r == captureColumn IN
            IF r.raised
            THEN /\ err' = Exc(r)
                 /\ pc' = "failed"
                 /\ UNCHANGED <<columns, current_column_index>>
            ELSE /\ columns' = DictSet(columns, headerRow[current_column_index + 1], r.value)
                 /\ current_column_index' = current_column_index + 1
                 /\ pc' = IF current_column_index' >= Len(name_row) \/ PyTruthy(name_row[current_column_index' + 1]) THEN "verify" ELSE "capture"
                 /\ UNCHANGED err
       ELSE /\ pc' = "verify"
            /\ UNCHANGED <<err, columns, current_column_index>>
    /\ UNCHANGED <<rows, wbVars, headerRowIndex, headerColumnIndex, header_to_row_map, biotopeCodes, parameters, parameterSets, result, cvVars, psVars>>

\* lines 377-380: the message for a concept none of whose columns was read
columnMessage(column_names, network) ==
    IF Len(column_names) = 1 THEN "Column \"" \o column_names[1] \o "\" not found for network \"" \o network \o "\"."
    ELSE "None of the following columns were found for network \"" \o network \o "\": \"" \o Join(column_names, "\", \"") \o "\""

\* lines 369-381: the first concept of COLUMNS without a column, or NONE
RECURSIVE missingColumn(_, _)
missingColumn(cols, i) ==
    IF i > Len(COLUMNS) THEN NONE
    ELSE IF Lookup(cols, COLUMNS[i], 1) = NONE THEN i
    ELSE missingColumn(cols, i + 1)

\* the same check, for the first concept of COLUMNS only
missingFirstColumn(cols, i) == IF Lookup(cols, COLUMNS[1], 1) = NONE THEN 1 ELSE NONE

verifyColumns(cols, i) == missingColumn(cols, i)

\* lines 368-383
VerifyColumns ==
    /\ pc = "verify"
    /\ LET i == verifyColumns(columns, 1) IN
       IF i # NONE
       THEN /\ err' = [type |-> "Exception", msg |-> columnMessage(COLUMNS[i], DictGet(parameters, StrV(NAME_PARAM[1])).s)]
            /\ pc' = "failed"
            /\ UNCHANGED parameterSets
       ELSE /\ parameterSets' = Append(parameterSets, [parameters |-> parameters, columns |-> columns])
            /\ pc' = "loop"
            /\ UNCHANGED err
    /\ UNCHANGED <<rows, wbVars, headerRowIndex, headerColumnIndex, header_to_row_map, biotopeCodes, current_column_index, parameters, columns, result, cvVars, psVars>>

\* line 385
ReturnBatchParameters ==
    /\ pc = "loop"
    /\ ~moreParameterSets
    /\ result' = [returned |-> TRUE, biotopeCodes |-> biotopeCodes, parameterSets |-> parameterSets]
    /\ pc' = "done"
    /\ UNCHANGED <<err, rows, wbVars, headerRowIndex, headerColumnIndex, header_to_row_map, biotopeCodes, current_column_index, parameters, columns, parameterSets, cvVars, psVars>>

---------------------------------------------------------------------------
(* The packages the model opens *)

SheetPath1 == "xl/worksheets/sheet1.xml"
SheetPath2 == "xl/worksheets/sheet2.xml"

\* -- parameter tables, as grids ------------------------------------------

\* the columns of one configuration group: its header-row label, and the
\* network name where the group starts
GroupColumns(name, src) == <<[h |-> StrV("Quality"), n |-> StrV(name)], [h |-> StrV(src), n |-> None], [h |-> StrV("Friction"), n |-> None]>>
SpacerColumn == <<[h |-> None, n |-> None]>>

\* the columns right of the header column
Plan(layout, src) ==
    CASE layout = "single" -> GroupColumns("A", src)
      [] layout = "adjacent" -> GroupColumns("A", src) \o GroupColumns("B", src)
      [] layout = "spacer" -> GroupColumns("A", src) \o SpacerColumn \o GroupColumns("B", src)

Layouts == {"single", "adjacent", "spacer"}
Extras == {"none", "filled", "empty"}

\* the number in the data row i (from 1) of column c (from 0); a zero in the
\* first data row of every third column
DataValue(i, c) == IF i = 1 /\ c % 3 = 0 THEN IntV("0") ELSE IntV(ToString(c * (MaxDataRows + 2) + i))

\* a parameter table: the row headers in column hc, the rows of the scalars,
\* an optional row with another label, the header row, nData data rows
Table(layout, src, thr, hc, nData, extra) ==
    LET plan == Plan(layout, src)
        width == hc + 1 + Len(plan)
        scalarRow(label, value) == [c \in 1..width |->
            IF c = hc + 1 THEN StrV(label)
            ELSE IF c > hc + 1 /\ plan[c - hc - 1].n # None THEN value
            ELSE None]
        nameRow == [c \in 1..width |->
            IF c = hc + 1 THEN StrV(NAME_PARAM[1])
            ELSE IF c > hc + 1 THEN plan[c - hc - 1].n
            ELSE None]
        hdrRow == [c \in 1..width |->
            IF c = hc + 1 THEN StrV(BIOTOPE_CODE_HDR)
            ELSE IF c > hc + 1 THEN plan[c - hc - 1].h
            ELSE None]
        dataRow(i) == [c \in 1..width |->
            IF c <= hc THEN StrV("wood")
            ELSE IF c > hc + 1 /\ plan[c - hc - 1].h = None THEN None
            ELSE DataValue(i, c - 1)]
        extraRows == CASE extra = "none" -> <<>>
                       [] extra = "filled" -> <<scalarRow("Comment", StrV("note"))>>
                       [] extra = "empty" -> <<scalarRow("Comment", None)>>
    IN  <<nameRow, scalarRow(DISPERSAL_PARAM[1], IntV("50")), scalarRow(thr, FloatV("0.05"))>>
        \o extraRows \o <<hdrRow>> \o [i \in 1..nData |-> dataRow(i)]

Tables == {Table(layout, src, thr, hc, nData, extra) :
              layout \in Layouts, src \in {SOURCE_COLUMN[1], SOURCE_COLUMN[2]},
              thr \in {NETWORK_THRESHOLD_PARAM[1], NETWORK_THRESHOLD_PARAM[2]},
              hc \in 0..MaxHeaderCol, nData \in 0..MaxDataRows, extra \in Extras}

\* tables with one cell changed, or one row cut short
ChangedBases == {Table(layout, SOURCE_COLUMN[1], NETWORK_THRESHOLD_PARAM[1], 1, MaxDataRows, "none") : layout \in Layouts}
ChangedValues == {None, IntV("0"), StrV("Comment"), StrV(NAME_PARAM[1]), StrV(BIOTOPE_CODE_HDR), StrV("Quality")}
Replace(g, r, c, v) == [g EXCEPT ![r][c] = v]
Truncate(g, r, len) == [g EXCEPT ![r] = SubSeq(g[r], 1, len)]
ChangedTables ==
    UNION {{Replace(g, r, c, v) : r \in 1..Len(g), c \in 1..Len(g[1]), v \in ChangedValues} : g \in ChangedBases}
    \cup UNION {{Truncate(g, r, len) : r \in 1..Len(g), len \in 0..(Len(g[1]) - 1)} : g \in ChangedBases}

\* tables that lack the label of a scalar row (the rows 2 and 3) and have an
\* empty cell in the code column
TwiceChangedTables ==
    UNION {{Replace(Replace(g, r, 2, v), d, 2, None) : r \in 2..Len(PARAMS), v \in {None, StrV("Comment")}, d \in (Len(PARAMS) + 2)..Len(g)} : g \in ChangedBases}

\* -- a grid, written as a package --------------------------------------

\* the cells of a grid that hold a string, as <<row, column>>
StringCells(g) == UNION {{<<r, c>> : c \in {c \in 1..Len(g[r]) : g[r][c].k = "str"}} : r \in 1..Len(g)}
\* the cell a comes before the cell b, row after row
Before(a, b) == a[1] < b[1] \/ (a[1] = b[1] /\ a[2] < b[2])
\* the cells where a string occurs for the first time
FirstStringCells(g) == {a \in StringCells(g) : \A b \in StringCells(g) : Before(b, a) => g[b[1]][b[2]].s # g[a[1]][a[2]].s}

\* the texts of the strings of a grid, each once, in the order of the cells
StringTable(g) ==
    LET first == FirstStringCells(g)
        nth(n) == CHOOSE a \in first : Cardinality({b \in first : Before(b, a)}) = n - 1
    IN  [n \in 1..Cardinality(first) |-> g[nth(n)[1]][nth(n)[2]].s]

StringIndex(strings, x) == (CHOOSE n \in 1..Len(strings) : strings[n] = x) - 1

\* the c element of a cell that holds a value
CellNode(v, r, c, strings) ==
    [r |-> [letter |-> Letters[c], row |-> r], v |-> TRUE,
     t |-> IF v.k = "str" THEN "s" ELSE "",
     text |-> IF v.k = "str" THEN ToString(StringIndex(strings, v.s)) ELSE v.s]

RECURSIVE CellNodes(_, _, _, _)
CellNodes(row, r, c, strings) ==
    IF c > Len(row) THEN <<>>
    ELSE (IF row[c] = None THEN <<>> ELSE <<CellNode(row[c], r, c, strings)>>) \o CellNodes(row, r, c + 1, strings)

\* the row elements: a row without cells is declared only if it is the last
RECURSIVE RowNodes(_, _, _)
RowNodes(g, r, strings) ==
    IF r > Len(g) THEN <<>>
    ELSE (IF g[r] = <<>> /\ r < Len(g) THEN <<>> ELSE <<[r |-> r, spans |-> <<1, Len(g[r])>>, c |-> CellNodes(g[r], r, 1, strings)]>>) \o RowNodes(g, r + 1, strings)

Package(members, malformed, sheets, relationships, si, rowNodes, rowNodes2) ==
    [isZip |-> TRUE, members |-> members, malformed |-> malformed, sheets |-> sheets, rels |-> relationships, si |-> si,
     worksheets |-> [path \in {SheetPath1, SheetPath2} |-> IF path = SheetPath1 THEN rowNodes ELSE rowNodes2]]

AllMembers == {RelsPath, WorkbookPath, SharedStringsPath, SheetPath1}
OneSheet == <<[name |-> "Sheet1", rid |-> "rId1"]>>
OneRel == <<[Id |-> "rId1", Target |-> "worksheets/sheet1.xml"]>>

PackageOf(g) ==
    LET strings == StringTable(g) IN
    Package(AllMembers, {}, OneSheet, OneRel, [n \in 1..Len(strings) |-> [t |-> TRUE, text |-> strings[n]]], RowNodes(g, 1, strings), <<>>)

TablePackages == {PackageOf(g) : g \in Tables}
ChangedTablePackages == {PackageOf(g) : g \in ChangedTables}
TwiceChangedTablePackages == {PackageOf(g) : g \in TwiceChangedTables}

\* -- small workbooks --------------------------------------------------

\* most shared strings, and most row elements, of a small workbook
MaxSharedStrings == 3
MaxRowNodes == 3

\* shared strings: plain ones (a t child) and rich ones (runs, no t child)
SiEntries == {[t |-> TRUE, text |-> "a"], [t |-> TRUE, text |-> "b"], [t |-> FALSE, text |-> "rich"]}
SiLists == UNION {[1..n -> SiEntries] : n \in 0..MaxSharedStrings}

\* the k-th row element of a sheet, with row number r: a number that tells
\* the element, and a shared string
SmallRow(k, r, shared) ==
    [r |-> r, spans |-> <<1, 2>>,
     c |-> <<[r |-> [letter |-> "A", row |-> r], v |-> TRUE, t |-> "", text |-> ToString(10 * k + r)],
             [r |-> [letter |-> "B", row |-> r], v |-> TRUE, t |-> "s", text |-> ToString(shared)]>>]
RowNumberLists == UNION {[1..n -> 1..MaxRowNodes] : n \in 0..MaxRowNodes}
SmallSheet(numbers, shared) == [k \in 1..Len(numbers) |-> SmallRow(k, numbers[k], shared)]

TwoSheets == <<[name |-> "Sheet1", rid |-> "rId1"], [name |-> "Other", rid |-> "rId2"]>>
TwoRels == <<[Id |-> "rId1", Target |-> "worksheets/sheet1.xml"], [Id |-> "rId2", Target |-> "worksheets/sheet2.xml"]>>

PlainStrings == <<[t |-> TRUE, text |-> "a"], [t |-> TRUE, text |-> "b"]>>

SmallPackages ==
    {Package(AllMembers, {}, OneSheet, OneRel, si, SmallSheet(<<2, 1>>, shared), <<>>) :
        si \in SiLists, shared \in 0..(MaxSharedStrings - 1)}
    \cup {Package(AllMembers, {}, OneSheet, OneRel, PlainStrings, SmallSheet(numbers, 1), <<>>) :
        numbers \in RowNumberLists}
    \cup {Package(members, malformed, sheets, OneRel, PlainStrings, SmallSheet(<<2, 1>>, 0), <<>>) :
        members \in SUBSET (AllMembers \cup {SheetPath2}), malformed \in SUBSET {RelsPath, SharedStringsPath}, sheets \in {<<>>, OneSheet, TwoSheets}}
    \cup {Package(AllMembers \cup {SheetPath2}, {}, TwoSheets, TwoRels, PlainStrings, SmallSheet(<<2, 1>>, 0), SmallSheet(<<3>>, 1))}
    \cup {[Package(AllMembers, {}, OneSheet, OneRel, <<>>, <<>>, <<>>) EXCEPT !.isZip = FALSE]}

---------------------------------------------------------------------------
(* The specification: open a package, ask for a sheet, load the table *)

Init == /\ Idle
        /\ \/ pkg \in TablePackages
           \/ pkg \in ChangedTablePackages
           \/ pkg \in TwiceChangedTablePackages
           \/ pkg \in SmallPackages
        /\ pc = "start"
        /\ rows = <<>>
        /\ cvArgs = NoCv
        /\ psArgs = NoPs

Next == \/ WorkbookInit
        \/ SheetName
        \/ LoadSheetData
        \/ FindHeaderRow
        \/ FindHeaderColumn
        \/ BuildHeaderToRowMap
        \/ ReadBiotopeCodes
        \/ CheckRowHeaders
        \/ ReadParameters
        \/ CaptureColumn
        \/ VerifyColumns
        \/ ReturnBatchParameters

Spec == Init /\ [][Next]_vars

---------------------------------------------------------------------------
(* C6 *)

\* rows of the span read by the call, as 0-based row indices
CvSpan == cvArgs.first_row .. (cvArgs.first_row + cvArgs.row_count - 1)
\* the cell of row r in the column read is absent, an empty string, or beyond the row's end
CvOffending(r) == \/ cvArgs.column_index >= Len(rows[r + 1])
                  \/ rows[r + 1][cvArgs.column_index + 1] \in {None, StrV("")}
CvOffendingRows == {r \in CvSpan : CvOffending(r)}
CvTopmost == CHOOSE r \in CvOffendingRows : \A q \in CvOffendingRows : r <= q

\* C6: columnValues over a vertical span keeps every cell, numeric zero
\* included, when no cell of the span is absent, an empty string or beyond the
\* end of its row; otherwise it fails, and the failure names the column letter
\* and 1-based row number of the topmost such cell.
C6_ColumnValues ==
    pc = "cv_done" =>
        IF CvOffendingRows = {}
        THEN /\ ~cvRet.raised
             /\ cvRet.value = [i \in 1..cvArgs.row_count |-> rows[cvArgs.first_row + i][cvArgs.column_index + 1]]
        ELSE /\ cvRet.raised
             /\ cvRet.msg = "Value expected in cell " \o Letters[cvArgs.column_index + 1] \o ToString(CvTopmost + 1)

\* a failing call whose column has a numeric zero above two offending cells
C6_Witness ==
    /\ pc = "cv_done"
    /\ cvRet.raised
    /\ Cardinality(CvOffendingRows) >= 2
    /\ \E r \in CvSpan : /\ r < CvTopmost
                         /\ rows[r + 1][cvArgs.column_index + 1] = IntV("0")

---------------------------------------------------------------------------
(* C1 *)

\* the cells of column c (from 0) below the header row
ColumnCells(c) == [i \in 1..(Len(rows) - headerRowIndex - 1) |-> rows[headerRowIndex + 1 + i][c + 1]]

\* tables of two complete groups: adjacent, or with a blank column between
TwoGroupTables(layouts) ==
    {Table(layout, src, thr, hc, nData, "none") :
        layout \in layouts, src \in {SOURCE_COLUMN[1], SOURCE_COLUMN[2]},
        thr \in {NETWORK_THRESHOLD_PARAM[1], NETWORK_THRESHOLD_PARAM[2]},
        hc \in 0..MaxHeaderCol, nData \in 0..MaxDataRows}

\* the columns (from 0) where the row of the network names starts a group
GroupStarts == {c \in (headerColumnIndex + 1)..(Len(rows[1]) - 1) : rows[1][c + 1] # None}

\* the ParameterSet ps has the three columns of the group that starts at column c
OwnColumns(ps, c) ==
    /\ DictGet(ps.parameters, StrV(NAME_PARAM[1])) = rows[1][c + 1]
    /\ Len(ps.columns) = 3
    /\ \A n \in 1..3 : /\ ps.columns[n].key = headerRow[c + n]
                       /\ ps.columns[n].val = ColumnCells(c + n - 1)

TwoParameterSets ==
    /\ Len(result.parameterSets) = 2
    /\ \E c1, c2 \in GroupStarts :
          /\ c1 < c2
          /\ OwnColumns(result.parameterSets[1], c1)
          /\ OwnColumns(result.parameterSets[2], c2)

\* C1: the extraction of a table of two complete groups returns exactly two
\* ParameterSets, left to right, each with the Quality/Source/Friction columns
\* of its own group, whether the groups are adjacent or a column with an
\* empty header-row cell lies between them.
C1_TwoGroups == (pc = "done" /\ rows \in TwoGroupTables({"adjacent", "spacer"})) => TwoParameterSets

\* the same for adjacent groups alone
C1_Adjacent == (pc = "done" /\ rows \in TwoGroupTables({"adjacent"})) => TwoParameterSets

\* an adjacent table has been extracted
C1_AdjacentReached == pc = "done" /\ rows \in TwoGroupTables({"adjacent"}) /\ Len(rows) > 5

---------------------------------------------------------------------------
(* C2 *)

\* a sheet has been loaded
Loaded == rows # <<>>

\* the row elements of the sheet that was loaded
LoadedRowNodes == pkg.worksheets[sheetPath(sheet_index).value]

\* no later row element declares the same row number as the k-th
LastDeclared(k) == \A q \in (k + 1)..Len(LoadedRowNodes) : LoadedRowNodes[q].r # LoadedRowNodes[k].r

DeclaredNumbers == {LoadedRowNodes[k].r : k \in 1..Len(LoadedRowNodes)}

\* the row that the cells of a row element make
RowOfNode(node) == cellsLoop(node.c, 1, [n \in 1..node.spans[2] |-> None]).value

\* C2: the grid loadSheetData returns is as long as the largest declared row
\* number; the row of every row element is at index (its number - 1),
\* whatever the order of the elements (of two elements with one number, the
\* later); every other index holds a row without a cell that is not None.
C2_RowPlacement ==
    Loaded =>
        /\ Len(rows) = Max(DeclaredNumbers)
        /\ \A k \in 1..Len(LoadedRowNodes) : LastDeclared(k) => rows[LoadedRowNodes[k].r] = RowOfNode(LoadedRowNodes[k])
        /\ \A n \in 1..Len(rows) : n \notin DeclaredNumbers => \A j \in 1..Len(rows[n]) : rows[n][j] = None

\* a sheet that declares row 3 before row 1, and no row 2, has been loaded
C2_Witness ==
    /\ Loaded
    /\ Len(LoadedRowNodes) = 2
    /\ LoadedRowNodes[1].r = 3
    /\ LoadedRowNodes[2].r = 1
    /\ rows[2] = <<>>
    /\ rows[3] # rows[1]

---------------------------------------------------------------------------
(* C3 *)

\* C3: a cell of type 's' whose text is i holds, in the grid, the string at
\* position i of the shared strings part, every si entry counted.
C3_SharedStringIndex ==
    Loaded =>
        \A k \in 1..Len(LoadedRowNodes) : LastDeclared(k) =>
            \A n \in 1..Len(LoadedRowNodes[k].c) :
                LET c_node == LoadedRowNodes[k].c[n] IN
                (c_node.v /\ c_node.t = "s") =>
                    rows[LoadedRowNodes[k].r][ColumnOf(c_node.r) + 1] = sharedText(pkg.si[IntOf(c_node.text) + 1].text)

---------------------------------------------------------------------------
(* C4 *)

\* C4: opening a package that holds the workbook part and the relationships
\* part, and no shared strings part, succeeds, with no shared string.
C4_NoSharedStrings ==
    [][(/\ pc = "start"
        /\ pkg.isZip
        /\ {WorkbookPath, RelsPath} \subseteq pkg.members
        /\ pkg.malformed \cap {WorkbookPath, RelsPath} = {}
        /\ SharedStringsPath \notin pkg.members)
       => (pc' = "opened" /\ sharedStrings' = <<>>)]_vars

---------------------------------------------------------------------------
(* C5 *)

\* the cells above the header row that equal the name header, as <<row, column>>
NameCells == {rc \in (0..(headerRowIndex - 1)) \X (0..(Len(Letters) - 1)) :
                 rc[2] < Len(rows[rc[1] + 1]) /\ rows[rc[1] + 1][rc[2] + 1] = StrV("Network name")}
\* the first of them, rows from the top and each row from the left
FirstNameCell == CHOOSE rc \in NameCells : \A q \in NameCells : rc[1] < q[1] \/ (rc[1] = q[1] /\ rc[2] <= q[2])

\* C5: the header column is the column of the first cell above the header
\* row that equals 'Network name', at any column index, 0 included; the
\* extraction fails with 'row header not found' exactly when there is none.
C5_HeaderColumn ==
    [][pc = "header_row" =>
        IF NameCells = {}
        THEN pc' = "failed" /\ err'.msg = "Row header \"Network name\" not found."
        ELSE pc' = "header_column" /\ headerColumnIndex' = FirstNameCell[2]]_vars

\* the same, for tables whose first such cell is not in column 0
C5_HeaderColumnNotFirst ==
    [][(pc = "header_row" /\ (NameCells = {} \/ FirstNameCell[2] # 0)) =>
        IF NameCells = {}
        THEN pc' = "failed" /\ err'.msg = "Row header \"Network name\" not found."
        ELSE pc' = "header_column" /\ headerColumnIndex' = FirstNameCell[2]]_vars

---------------------------------------------------------------------------
(* C7 *)

CanonicalLabels == {StrV("Network name"), StrV("Average dispersal distance (metres)"), StrV("Network threshold"), StrV("Minimum dispersal probability")}

\* the cell of row r (from 0) in the current column holds no value
ScalarMissing(r) == \/ current_column_index >= Len(rows[r + 1])
                    \/ ~PyTruthy(rows[r + 1][current_column_index + 1])

\* a row of a canonical label has no value in the current column
CanonicalScalarMissing == \E n \in 1..Len(header_to_row_map) :
                             /\ header_to_row_map[n].key \in CanonicalLabels
                             /\ ScalarMissing(header_to_row_map[n].val)

\* C7: for each group the scalars are read from the rows of the canonical
\* row headers alone: the reading fails exactly when one of those cells is
\* empty, and the keys of the parameters are canonical labels only.
C7_CanonicalScalars ==
    [][(pc = "loop" /\ moreParameterSets) =>
        IF CanonicalScalarMissing
        THEN pc' = "failed"
        ELSE pc' = "capture" /\ DictKeys(parameters') \subseteq CanonicalLabels]_vars

---------------------------------------------------------------------------
(* C8 *)

HasColumn(cols, label) == \E n \in 1..Len(cols) : cols[n].key = StrV(label)
HasAllColumns(cols) == /\ HasColumn(cols, "Quality")
                       /\ HasColumn(cols, "Source") \/ HasColumn(cols, "Reproduction")
                       /\ HasColumn(cols, "Friction")

\* the error for the first concept that the columns read for a group lack
MissingColumnError(cols, network) ==
    IF ~HasColumn(cols, "Quality") THEN "Column \"Quality\" not found for network \"" \o network \o "\"."
    ELSE IF ~(HasColumn(cols, "Source") \/ HasColumn(cols, "Reproduction")) THEN "None of the following columns were found for network \"" \o network \o "\": \"Source\", \"Reproduction\""
    ELSE "Column \"Friction\" not found for network \"" \o network \o "\"."

\* C8: every ParameterSet of a returned BatchParameters has a Quality, a
\* Source or Reproduction, and a Friction column; a group that lacks one makes
\* the extraction fail, naming the concept (all its synonyms) and the
\* group's network name, and nothing is returned.
C8_AllColumns ==
    /\ [](result.returned => \A n \in 1..Len(result.parameterSets) : HasAllColumns(result.parameterSets[n].columns))
    /\ [](pc = "failed" => ~result.returned)
    /\ [][pc = "verify" =>
            IF HasAllColumns(columns)
            THEN pc' = "loop" /\ parameterSets' = Append(parameterSets, [parameters |-> parameters, columns |-> columns])
            ELSE /\ pc' = "failed"
                 /\ err'.msg = MissingColumnError(columns, DictGet(parameters, StrV("Network name")).s)
                 /\ ~result'.returned]_vars

\* the second group of a table lacks its Source column, and the extraction has failed
C8_Witness ==
    /\ pc = "failed"
    /\ Len(parameterSets) = 1
    /\ HasColumn(columns, "Quality")
    /\ err.msg = "None of the following columns were found for network \"B\": \"Source\", \"Reproduction\""

---------------------------------------------------------------------------
(* C9 *)

\* complete tables, under every choice of the synonyms
SynonymTables ==
    {Table(layout, src, thr, hc, nData, "none") :
        layout \in Layouts, src \in {"Source", "Reproduction"},
        thr \in {"Network threshold", "Minimum dispersal probability"},
        hc \in 1..MaxHeaderCol, nData \in 0..MaxDataRows}

\* C9: a table that labels the source column 'Reproduction' or the threshold
\* row 'Minimum dispersal probability' is extracted, and column(SOURCE_COLUMN)
\* and parameter(NETWORK_THRESHOLD_PARAM) of each ParameterSet return what the
\* table holds under the label it uses.
C9_Synonyms ==
    rows \in SynonymTables =>
        /\ pc # "failed"
        /\ pc = "done" =>
              /\ result.parameterSets # <<>>
              /\ \A n \in 1..Len(result.parameterSets) :
                    \E c \in GroupStarts :
                        /\ DictGet(result.parameterSets[n].parameters, StrV("Network name")) = rows[1][c + 1]
                        /\ headerRow[c + 2] \in {StrV("Source"), StrV("Reproduction")}
                        /\ column(result.parameterSets[n], SOURCE_COLUMN) = Return(ColumnCells(c + 1))
                        /\ rows[3][headerColumnIndex + 1] \in {StrV("Network threshold"), StrV("Minimum dispersal probability")}
                        /\ parameter(result.parameterSets[n], NETWORK_THRESHOLD_PARAM) = Return(rows[3][c + 1])

\* a table that uses the second synonym of both concepts has been extracted
C9_Witness ==
    /\ pc = "done"
    /\ rows \in SynonymTables
    /\ Len(rows) > 4
    /\ HasColumn(result.parameterSets[1].columns, "Reproduction")
    /\ DictHas(result.parameterSets[1].parameters, StrV("Minimum dispersal probability"))

---------------------------------------------------------------------------
(* C10 *)

\* C10: in a returned BatchParameters every column of every ParameterSet is
\* as long as biotopeCodes, which is as long as the grid has rows below the
\* header row.
C10_ColumnLengths ==
    result.returned =>
        /\ Len(result.biotopeCodes) = Len(rows) - headerRowIndex - 1
        /\ \A n \in 1..Len(result.parameterSets) :
              \A m \in 1..Len(result.parameterSets[n].columns) :
                  Len(result.parameterSets[n].columns[m].val) = Len(result.biotopeCodes)

\* two ParameterSets over the most data rows have been returned
C10_Witness ==
    /\ result.returned
    /\ Len(result.parameterSets) = 2
    /\ Len(result.biotopeCodes) = MaxDataRows
    /\ Len(result.parameterSets[2].columns) = 3

---------------------------------------------------------------------------
(* C11 *)

\* C11: every handle the reader opens is released again: no member handle
\* outlives the operation that opened it, and once the open has failed, or
\* the extraction has failed or returned, no handle at all is open.
C11_HandlesReleased ==
    /\ handles \subseteq {"archive"}
    /\ pc \in {"failed", "done"} => handles = {}

---------------------------------------------------------------------------
(* C12 *)

\* what a sheetName call has to do by C12, for an index of the given set
SheetNameStep(indexes) ==
    (pc = "opened" /\ pc' # "opened" /\ sheet_index' \in indexes) =>
        IF 0 <= sheet_index' /\ sheet_index' < sheetCount
        THEN pc' = "named" /\ sheetNameRet' = sheetDefs[sheet_index' + 1].name
        ELSE pc' = "failed" /\ err'.type = "IndexError" /\ sheetNameRet' = sheetNameRet

\* C12: sheetName returns the name of the index-th declared sheet for
\* 0 <= index < sheetCount(), and fails with an IndexError for every other
\* index, the negative ones included.
C12_SheetName == [][SheetNameStep(SheetIndexes)]_vars

\* the same, for the indices from 0 on
C12_NonNegative == [][SheetNameStep(0..MaxSheets)]_vars

---------------------------------------------------------------------------
(* C13 *)

\* the worksheet of the sheet asked for is in the package and parses
SheetReadable ==
    /\ ~sheetPath(sheet_index).raised
    /\ ~loadXml(pkg, sheetPath(sheet_index).value).raised

\* ... and its sheet data declares no row
NoRowDeclared == SheetReadable /\ pkg.worksheets[sheetPath(sheet_index).value] = <<>>

\* C13: loadSheetData on a worksheet whose sheet data declares no row fails
\* with an error and returns no grid; the grid it returns is never empty.
C13_ZeroRows ==
    /\ [][(pc = "named" /\ pc' # "named" /\ NoRowDeclared) => (pc' = "failed" /\ err' # NoErr /\ rows' = rows)]_vars
    /\ [](pc = "loaded" => rows # <<>>)

\* loadSheetData has failed on a readable worksheet without rows
C13_Witness ==
    /\ pc = "failed"
    /\ err = [type |-> "ValueError", msg |-> "max() arg is an empty sequence"]
    /\ NoRowDeclared

---------------------------------------------------------------------------
(* C14 *)

\* the labels in the header column of the rows above the header row
LabelsAbove == {rows[r][headerColumnIndex + 1] : r \in {r \in 1..headerRowIndex : Len(rows[r]) > headerColumnIndex}}

\* the concepts of PARAMS none of whose labels is among them
MissingConcepts == {i \in 1..Len(PARAMS) : \A n \in 1..Len(PARAMS[i]) : StrV(PARAMS[i][n]) \notin LabelsAbove}
FirstMissingConcept == CHOOSE i \in MissingConcepts : \A j \in MissingConcepts : i <= j

\* extraction has failed after it found the header row and the header column
\* and built the row-header index
FailedPastIndex == pc = "failed" /\ PyTruthyIndex(headerColumnIndex) /\ err.type = "Exception"

\* C14: the row headers are validated before the code column is read: when
\* a grid lacks a required row header, extraction fails with the
\* missing-row-header error that names the concept, also when the code
\* column has an empty cell.
C14_RowHeadersFirst ==
    (FailedPastIndex /\ MissingConcepts # {}) => err.msg = rowHeaderMessage(PARAMS[FirstMissingConcept])

\* the same, for the grids whose code column has no empty cell
C14_FullCodeColumn ==
    (FailedPastIndex /\ MissingConcepts # {} /\ ~readBiotopeCodes.raised) => err.msg = rowHeaderMessage(PARAMS[FirstMissingConcept])

\* a grid without a row header whose code column is full has been refused
C14_FullCodeColumnReached ==
    /\ FailedPastIndex
    /\ MissingConcepts # {}
    /\ ~readBiotopeCodes.raised
    /\ Len(rows) > headerRowIndex + 1

---------------------------------------------------------------------------
(* C15 *)

\* the rows above the header row that have a non-empty cell at the header column
LabelledRows == {r \in 0..(headerRowIndex - 1) : Len(rows[r + 1]) > headerColumnIndex /\ PyTruthy(rows[r + 1][headerColumnIndex + 1])}

\* label -> row index, the last row of a label
ExpectedRowIndex ==
    {<<rows[r + 1][headerColumnIndex + 1], r>> : r \in {r \in LabelledRows : \A q \in LabelledRows : rows[q + 1][headerColumnIndex + 1] = rows[r + 1][headerColumnIndex + 1] => q <= r}}

\* the items of a dict
Items(d) == {<<d[n].key, d[n].val>> : n \in 1..Len(d)}

\* what building the row-header index has to do by C15
RowHeaderIndexBuilt ==
    /\ pc' = "row_map"
    /\ Items(header_to_row_map') = ExpectedRowIndex
    /\ Len(header_to_row_map') = Cardinality(ExpectedRowIndex)

\* a row above the header row ends right before the header column
RowEndsAtHeaderColumn == \E r \in 1..headerRowIndex : Len(rows[r]) = headerColumnIndex

\* C15: the row-header index maps every non-empty label of the header column,
\* in the rows above the header row, to its (last) row; a row with no cell at
\* the header column, of any length from 0 to headerColumnIndex, is skipped
\* and never makes extraction fail.
C15_RowHeaderIndex == [][(pc = "header_column" /\ pc' # "header_column") => RowHeaderIndexBuilt]_vars

\* the same, for the grids in which no row above the header row has exactly
\* headerColumnIndex cells
C15_OtherLengths == [][(pc = "header_column" /\ pc' # "header_column" /\ ~RowEndsAtHeaderColumn) => RowHeaderIndexBuilt]_vars

\* the index has been built for a grid with a row shorter than that, and for
\* a grid with a label in two rows
C15_ShorterRowReached == pc = "row_map" /\ \E r \in 1..headerRowIndex : Len(rows[r]) < headerColumnIndex
C15_DuplicateReached == pc = "row_map" /\ Cardinality(LabelledRows) > Len(header_to_row_map)

---------------------------------------------------------------------------
(* C16 *)

\* a group may end before column c: the header row ends, its label is empty,
\* or the row of the network names holds a new name
GroupEnd(c) ==
    \/ c >= Len(headerRow)
    \/ ~PyTruthy(headerRow[c + 1])
    \/ c < Len(name_row) /\ PyTruthy(name_row[c + 1])

\* what one turn of the column capture has to do by C16
ColumnCaptured ==
    IF current_column_index' = current_column_index
    THEN pc' = "verify" /\ (current_column_index >= Len(headerRow) \/ ~PyTruthy(headerRow[current_column_index + 1]))
    ELSE /\ current_column_index' = current_column_index + 1
         /\ DictHas(columns', headerRow[current_column_index + 1])
         /\ DictGet(columns', headerRow[current_column_index + 1]) = ColumnCells(current_column_index)
         /\ pc' = "verify" => GroupEnd(current_column_index')
         /\ pc' = "capture" => ~(current_column_index' < Len(name_row) /\ PyTruthy(name_row[current_column_index' + 1]))

\* C16: the capture of a group takes column after column, each under its
\* header-row label, and stops only where the header row ends, where its
\* label is empty or where the row of the network names holds a new name,
\* however long that row is.
C16_ColumnCapture == [][(pc = "capture" /\ pc' \in {"capture", "verify"}) => ColumnCaptured]_vars

\* the same, for the grids whose row of network names is as long as the
\* header row
C16_LongNameRow == [][(pc = "capture" /\ pc' \in {"capture", "verify"} /\ Len(name_row) >= Len(headerRow)) => ColumnCaptured]_vars

\* the second group of such a grid has been captured
C16_LongNameRowReached == pc = "verify" /\ Len(name_row) >= Len(headerRow) /\ Len(parameterSets) = 1 /\ Len(columns) = Len(COLUMNS)

---------------------------------------------------------------------------
(* C17 *)

\* the dict a call looks into, and the literals of the call that are keys of it
PsLooked == IF psArgs.op = "parameter" THEN psArgs.ps.parameters ELSE psArgs.ps.columns
PsPresent == {n \in 1..Len(psArgs.names) : DictHas(PsLooked, StrV(psArgs.names[n]))}
PsFirst == CHOOSE n \in PsPresent : \A m \in PsPresent : n <= m

\* the call returned the value of the first literal that is present
PsReturnedFirst == ~psRet.raised /\ psRet.value = DictGet(PsLooked, StrV(psArgs.names[PsFirst]))

\* the message that names the concept by the first literal of the call
PsMissingMessage ==
    (IF psArgs.op = "parameter" THEN "Missing parameter '" ELSE "Missing parameter set column '") \o psArgs.names[1] \o "'."

\* C17: parameter and column try the literals in list order and return the
\* value of the first one that is present; when none is present they fail
\* with a message that names the concept by its first literal in full.
C17_Lookup ==
    pc = "ps_done" =>
        IF PsPresent # {} THEN PsReturnedFirst
        ELSE psRet.raised /\ psRet.msg = PsMissingMessage

\* the same without the wording of the message
C17_FirstPresent ==
    pc = "ps_done" =>
        IF PsPresent # {} THEN PsReturnedFirst
        ELSE psRet.raised /\ psRet.type = "Exception"

\* column(['Source', 'Reproduction']) has returned with both columns there
C17_FirstPresentReached ==
    /\ pc = "ps_done"
    /\ psArgs.op = "column"
    /\ psArgs.names = SOURCE_COLUMN
    /\ PsPresent = {1, 2}
    /\ psRet.value = <<IntV("2")>>

====
